---- MODULE Spec2Model ----
(***************************************************************************)
(* Findit: the indexing-and-search engine of src/main.py.                  *)
(*                                                                         *)
(* FileIndexer owns ONE sqlite3 connection and ONE cursor                  *)
(* (check_same_thread=False), used by the UI thread and by every           *)
(* IndexThread.  The connection is in Python's default (legacy)            *)
(* transaction control: an INSERT/UPDATE/DELETE/REPLACE opens a            *)
(* transaction implicitly when none is open; an explicit BEGIN inside an   *)
(* open transaction and an explicit COMMIT/ROLLBACK outside one raise      *)
(* sqlite3.OperationalError; Connection.commit() outside one is a no-op.   *)
(*                                                                         *)
(* Strings are sequences of one-character strings, so that LIKE, the       *)
(* collations, os.path.join and os.path.splitext are computed, not         *)
(* assumed.                                                                *)
(***************************************************************************)
EXTENDS Integers, Sequences, FiniteSets, TLC

VARIABLES
    files,        \* table files as this connection sees it (rowid order)
    mounts,       \* table mount_points as this connection sees it (rowid order)
    cFiles,       \* table files as of the last commit (durable)
    cMounts,      \* table mount_points as of the last commit (durable)
    inTxn,        \* sqlite3 Connection.in_transaction
    threads,      \* the IndexThread objects created so far, by id
    mainThread,   \* MainWindow.index_thread (0: None)
    dlgOpen,      \* an IndexerWindow dialog is executing (modal)
    dlgThread,    \* IndexerWindow.index_thread of the open dialog (0: None)
    amp,          \* the UI thread: pc, adds (the add_mount_point calls made
                  \* from the location dialogs so far) and the locals of
                  \* get_stats
    sArgs,        \* the arguments of the last FileIndexer.search call
    sResults,     \* what that call returned
    backend,      \* USE_NIM_BACKEND: "nim" when nim_backend was imported, else
                  \* "python"
    cursor,       \* the result set the one shared cursor holds: <<rows>>, or
                  \* <<>> when its last statement produced none
    sStats        \* what the last get_stats call returned (<<>>: none yet)

vars == <<files, mounts, cFiles, cMounts, inTxn, threads, mainThread,
          dlgOpen, dlgThread, amp, sArgs, sResults, backend, cursor, sStats>>

----------------------------------------------------------------------------
(* Bounds of the model.                                                    *)

\* IndexThread objects created in one behaviour.
MaxThreads == 2
\* add_mount_point calls made from the location dialogs in one behaviour.
MaxAdds == 1
\* int(time.time()) during the session modelled; the rows an earlier session
\* left carry the time 0.
SessionTime == 1
\* Largest max_results a search is called with.
MaxResults == 2
\* batch_size of index_path, scaled down from 5000 (src/main.py:206).
batch_size == 2
\* progress_interval of index_path, scaled down from 2000 (src/main.py:207).
progress_interval == 1

----------------------------------------------------------------------------
(* Characters and strings.                                                 *)

\* ord(c) for the characters the model uses.
Ord(c) ==
    CASE c = "%" -> 37 [] c = "(" -> 40 [] c = "." -> 46 [] c = "/" -> 47
      [] c = "2" -> 50 [] c = "A" -> 65 [] c = "B" -> 66 [] c = "T" -> 84
      [] c = "X" -> 88 [] c = "_" -> 95 [] c = "a" -> 97 [] c = "b" -> 98
      [] c = "c" -> 99 [] c = "d" -> 100 [] c = "f" -> 102 [] c = "g" -> 103
      [] c = "h" -> 104 [] c = "i" -> 105 [] c = "l" -> 108 [] c = "n" -> 110
      [] c = "o" -> 111 [] c = "s" -> 115 [] c = "t" -> 116 [] c = "u" -> 117
      [] c = "x" -> 120 [] c = "z" -> 122

\* ASCII lower-casing of one character (str.lower, NOCASE, LIKE, re.IGNORECASE).
LowerChar(c) ==
    CASE c = "A" -> "a" [] c = "B" -> "b" [] c = "T" -> "t" [] c = "X" -> "x"
      [] OTHER -> c

Lower(s) == [i \in 1..Len(s) |-> LowerChar(s[i])]

\* s < t in SQLite's BINARY collation (memcmp).
RECURSIVE BinaryLess(_, _)
BinaryLess(s, t) ==
    IF t = <<>> THEN FALSE
    ELSE IF s = <<>> THEN TRUE
    ELSE IF Ord(Head(s)) # Ord(Head(t)) THEN Ord(Head(s)) < Ord(Head(t))
    ELSE BinaryLess(Tail(s), Tail(t))

\* s < t in SQLite's NOCASE collation.
NocaseLess(s, t) == BinaryLess(Lower(s), Lower(t))

\* str.startswith
StartsWith(s, p) == Len(p) <= Len(s) /\ SubSeq(s, 1, Len(p)) = p

\* os.path.join(dirpath, name) for a dirpath that does not end in "/".
PathJoin(dirpath, name) == dirpath \o <<"/">> \o name

\* os.path.splitext(filename)[1].lower(): from the last dot on, unless only
\* dots come before it.
Extension(name) ==
    LET dots == {i \in 1..Len(name) : name[i] = "."}
        last == CHOOSE i \in dots : \A j \in dots : j <= i
    IN  IF dots = {} \/ (\A j \in 1..(last - 1) : name[j] = ".")
        THEN <<>>
        ELSE Lower(SubSeq(name, last, Len(name)))

\* The names used on disk and in queries.
sRootA  == <<"/", "a">>
sRootA2 == <<"/", "a", "2">>
sRootC  == <<"/", "c">>
nSub    == <<"s", "u", "b">>
nGit    == <<".", "g", "i", "t">>
nAtxt   == <<"a", ".", "t", "x", "t">>
nBtxt   == <<"B", ".", "t", "x", "t">>
nCtxt   == <<"c", ".", "t", "x", "t">>
nDtxt   == <<"d", ".", "t", "x", "t">>
nOld    == <<"o", ".", "t", "x", "t">>
nH      == <<"h">>
nZtxt   == <<"z", ".", "T", "X", "T">>
nLocal  == <<".", "l", "o", "c", "a", "l">>
nConfig == <<".", "c", "o", "n", "f", "i", "g">>
AllLocations == <<"A", "l", "l">>

----------------------------------------------------------------------------
(* SQLite expressions and statements.                                      *)

\* text LIKE pattern: % matches any run, _ any one character, and letters
\* match without regard to ASCII case whatever the collation.
RECURSIVE SqlLike(_, _)
SqlLike(text, pattern) ==
    IF pattern = <<>> THEN text = <<>>
    ELSE IF Head(pattern) = "%"
         THEN \E k \in 0..Len(text) :
                  SqlLike(SubSeq(text, k + 1, Len(text)), Tail(pattern))
    ELSE /\ text # <<>>
         /\ \/ Head(pattern) = "_"
            \/ LowerChar(Head(pattern)) = LowerChar(Head(text))
         /\ SqlLike(Tail(text), Tail(pattern))

\* ORDER BY is_directory DESC, filename: column filename has the default
\* (BINARY) collation; only the index idx_filename is NOCASE.
OrderBefore(r1, r2) ==
    \/ r1.is_directory > r2.is_directory
    \/ /\ r1.is_directory = r2.is_directory
       /\ BinaryLess(r1.filename, r2.filename)

RECURSIVE InsertSorted(_, _)
InsertSorted(r, sorted) ==
    IF sorted = <<>> THEN <<r>>
    ELSE IF OrderBefore(r, Head(sorted)) THEN <<r>> \o sorted
    ELSE <<Head(sorted)>> \o InsertSorted(r, Tail(sorted))

\* The rows in ORDER BY order; rows with equal keys stay in rowid order.
RECURSIVE OrderBy(_)
OrderBy(rows) ==
    IF rows = <<>> THEN <<>>
    ELSE InsertSorted(rows[Len(rows)], OrderBy(SubSeq(rows, 1, Len(rows) - 1)))

\* A LIMIT that lets one row too many through.
LimitOffByOne(rows, n) ==
    IF n < 0 \/ n + 1 >= Len(rows) THEN rows ELSE SubSeq(rows, 1, n + 1)

\* LIMIT n: a negative n is no limit.
Limit(rows, n) ==
    IF n < 0 \/ n >= Len(rows) THEN rows ELSE SubSeq(rows, 1, n)

----------------------------------------------------------------------------
(* Python's re, for the patterns the model uses: an ordinary character     *)
(* matches itself, "." matches any character, and an unclosed "(" does not *)
(* compile (re.error).                                                     *)

ReCompiles(pattern) == \A i \in 1..Len(pattern) : pattern[i] # "("

ReMatchAt(pattern, text, k, ignorecase) ==
    /\ k + Len(pattern) <= Len(text)
    /\ \A i \in 1..Len(pattern) :
           \/ pattern[i] = "."
           \/ pattern[i] = text[k + i]
           \/ ignorecase /\ LowerChar(pattern[i]) = LowerChar(text[k + i])

\* pattern.search(text) is not None
ReSearch(pattern, text, ignorecase) ==
    \E k \in 0..Len(text) : ReMatchAt(pattern, text, k, ignorecase)

----------------------------------------------------------------------------
(* FileIndexer.search                                                      *)

\* SELECT path, filename, size, modified, is_directory, filesystem_type
Columns(r) ==
    [path |-> r.path, filename |-> r.filename, size |-> r.size,
     modified |-> r.modified, is_directory |-> r.is_directory,
     filesystem_type |-> r.filesystem_type]

SelectColumns(rows) == [i \in 1..Len(rows) |-> Columns(rows[i])]

\* if drive_filter and drive_filter != "All Locations": path LIKE drive_filter%
DriveClause(r, drive_filter) ==
    \/ drive_filter = <<>>
    \/ drive_filter = AllLocations
    \/ SqlLike(r.path, drive_filter \o <<"%">>)

\* file_type == "files": is_directory = 0; "folders": is_directory = 1
TypeClause(r, file_type) ==
    /\ file_type = "files" => r.is_directory = 0
    /\ file_type = "folders" => r.is_directory = 1

\* filename LIKE ? {collate} or path LIKE ? {collate}, with ? = %query%.
\* The COLLATE operator does not change what LIKE matches.
LikeClause(r, query, match_case, search_path) ==
    LET like_query == <<"%">> \o query \o <<"%">>
        collate    == IF match_case THEN "" ELSE "COLLATE NOCASE"
    IN  SqlLike(IF search_path THEN r.path ELSE r.filename, like_query)

RECURSIVE RegexLoop(_, _, _)

\* A loop over all_files without the break.
RegexLoopNoBreak(all_files, results, a) ==
    LET hit(row) == ReSearch(a.query,
                             IF a.search_path THEN row.path ELSE row.filename,
                             ~a.match_case)
    IN  results \o SelectSeq(all_files, hit)

\* for row in all_files: ... results.append(row);
\* if len(results) >= max_results: break
RegexLoop(all_files, results, a) ==
    IF all_files = <<>> THEN results
    ELSE LET row         == Head(all_files)
             search_text == IF a.search_path THEN row.path ELSE row.filename
         IN  IF ReSearch(a.query, search_text, ~a.match_case)
             THEN IF Len(results) + 1 >= a.max_results
                  THEN Append(results, row)
                  ELSE RegexLoop(Tail(all_files), Append(results, row), a)
             ELSE RegexLoop(Tail(all_files), results, a)

\* The regex branch: the candidate rows, then the in-process filter.  re.error
\* is caught by the except clause, which returns results as it stands ([]).
SearchRegex(tbl, a) ==
    LET where(r)  == DriveClause(r, a.drive_filter)
        all_files == SelectColumns(
                         Limit(OrderBy(SelectSeq(tbl, where)), a.max_results * 5))
    IN  IF ~ReCompiles(a.query) THEN <<>>
        ELSE RegexLoop(all_files, <<>>, a)

\* The literal branch: one SELECT ... WHERE ... ORDER BY ... LIMIT max_results.
SearchLiteral(tbl, a) ==
    LET where(r) == /\ LikeClause(r, a.query, a.match_case, a.search_path)
                    /\ TypeClause(r, a.file_type)
                    /\ DriveClause(r, a.drive_filter)
    IN  SelectColumns(Limit(OrderBy(SelectSeq(tbl, where)), a.max_results))

\* A search without the test of the empty query.
searchNoEmptyTest(tbl, a) ==
    IF a.regex_mode THEN SearchRegex(tbl, a) ELSE SearchLiteral(tbl, a)

\* search(query, match_case, regex_mode, max_results, search_path, file_type,
\* drive_filter) on the table as the connection sees it.
search(tbl, a) ==
    IF a.query = <<>> THEN <<>>
    ELSE IF a.regex_mode THEN SearchRegex(tbl, a)
    ELSE SearchLiteral(tbl, a)

----------------------------------------------------------------------------
(* The filesystem the crawler walks (os.walk, os.lstat).                   *)

\* The folders the user can register and index.
Roots == <<sRootA, sRootA2>>

\* detect_filesystem(path): the type "df -T" prints, or "unknown" when df
\* fails or times out, as it does here for /a2.
detect_filesystem(path) == IF path = sRootA2 THEN "unknown" ELSE "ext4"

\* os.scandir(dirpath) as os.walk splits it: sub-directories and other entries.
Listing(dirpath) ==
    CASE dirpath = sRootA ->
             [dirnames |-> <<nSub, nGit>>, filenames |-> <<nAtxt, nBtxt>>]
      [] dirpath = PathJoin(sRootA, nSub) ->
             [dirnames |-> <<>>, filenames |-> <<>>]
      [] dirpath = PathJoin(sRootA, nGit) ->
             [dirnames |-> <<>>, filenames |-> <<nH>>]
      [] dirpath = sRootA2 ->
             [dirnames |-> <<>>, filenames |-> <<nDtxt>>]
      [] dirpath = sRootC ->
             [dirnames |-> <<nSub, nLocal, nConfig, nGit>>,
              filenames |-> <<nAtxt, nBtxt, nDtxt>>]
      [] dirpath = PathJoin(sRootC, nLocal) ->
             [dirnames |-> <<>>, filenames |-> <<nH>>]
      [] dirpath = PathJoin(sRootC, nGit) ->
             [dirnames |-> <<>>, filenames |-> <<nH>>]
      [] OTHER -> [dirnames |-> <<>>, filenames |-> <<>>]

\* os.lstat(path).st_size
St_size(path) ==
    CASE path = PathJoin(sRootA, nAtxt) -> 10
      [] path = PathJoin(sRootA, nBtxt) -> 20
      [] OTHER -> 7

\* int(os.lstat(path).st_mtime): nothing on disk is modified in a behaviour.
St_mtime(path) == 0

\* The paths whose os.lstat may raise OSError (vanished, permission denied).
Flaky ==
    {PathJoin(sRootA, nBtxt), PathJoin(sRootC, nBtxt),
     PathJoin(sRootC, nSub)}

\* A filter of dirnames that keeps every name.
KeepEveryDir(d) == TRUE

\* d for d in dirnames if not d.startswith(".") or d in [".local", ".config"]
KeepDir(d) == ~StartsWith(d, <<".">>) \/ d \in {nLocal, nConfig}

\* The directory tuple index_path appends (src/main.py:226-237).
DirRow(dirpath, dirname, fs_type, now) ==
    [path |-> PathJoin(dirpath, dirname), filename |-> dirname,
     extension |-> <<>>, size |-> 0,
     modified |-> St_mtime(PathJoin(dirpath, dirname)), is_directory |-> 1,
     filesystem_type |-> fs_type, indexed_at |-> now]

\* The file tuple index_path appends (src/main.py:250-261).
FileRow(dirpath, filename, fs_type, now) ==
    [path |-> PathJoin(dirpath, filename), filename |-> filename,
     extension |-> Extension(filename),
     size |-> St_size(PathJoin(dirpath, filename)),
     modified |-> St_mtime(PathJoin(dirpath, filename)), is_directory |-> 0,
     filesystem_type |-> fs_type, indexed_at |-> now]

\* for dirname in dirnames: lstat, append; an OSError skips that entry.
RECURSIVE DirRows(_, _, _, _, _)
DirRows(dirpath, dirnames, fs_type, now, failed) ==
    IF dirnames = <<>> THEN <<>>
    ELSE (IF PathJoin(dirpath, Head(dirnames)) \in failed THEN <<>>
          ELSE <<DirRow(dirpath, Head(dirnames), fs_type, now)>>)
         \o DirRows(dirpath, Tail(dirnames), fs_type, now, failed)

JoinAll(dirpath, dirnames) ==
    [i \in 1..Len(dirnames) |-> PathJoin(dirpath, dirnames[i])]

----------------------------------------------------------------------------
(* The tables.                                                             *)

\* The NULL of column last_indexed INTEGER.
NULL == -1

\* DELETE FROM files WHERE path LIKE root_path%
DeleteUnder(tbl, root_path) ==
    LET keep(r) == ~SqlLike(r.path, root_path \o <<"%">>)
    IN  SelectSeq(tbl, keep)

\* An INSERT that keeps the row with this path.
InsertMountKeeping(tbl, path, fs_type) ==
    Append(tbl, [path |-> path, filesystem_type |-> fs_type,
                 last_indexed |-> NULL, enabled |-> 1])

\* An INSERT OR REPLACE whose VALUES give enabled the value 0.
InsertMountDisabled(tbl, path, fs_type) ==
    LET other(m) == m.path # path
    IN  Append(SelectSeq(tbl, other),
               [path |-> path, filesystem_type |-> fs_type,
                last_indexed |-> NULL, enabled |-> 0])

\* INSERT OR REPLACE INTO mount_points (path, filesystem_type, enabled)
\* VALUES (?, ?, 1): the row with this path (UNIQUE) is deleted and a new row
\* is appended; last_indexed, not listed, takes its default NULL.
InsertOrReplaceMount(tbl, path, fs_type) ==
    LET other(m) == m.path # path
    IN  Append(SelectSeq(tbl, other),
               [path |-> path, filesystem_type |-> fs_type,
                last_indexed |-> NULL, enabled |-> 1])

\* UPDATE mount_points SET last_indexed = ? WHERE path = ?
UpdateLastIndexed(tbl, path, now) ==
    [i \in 1..Len(tbl) |->
        IF tbl[i].path = path THEN [tbl[i] EXCEPT !.last_indexed = now]
        ELSE tbl[i]]

\* [m["path"] for m in get_indexed_mount_points() if m["enabled"]]
EnabledPaths(tbl) ==
    LET en(m) == m.enabled # 0
        rows  == SelectSeq(tbl, en)
    IN  [i \in 1..Len(rows) |-> rows[i].path]

----------------------------------------------------------------------------
(* The sqlite3 connection.                                                 *)

\* cursor.execute("COMMIT") inside a transaction, and conn.commit().
Commit ==
    /\ cFiles' = files
    /\ cMounts' = mounts
    /\ inTxn' = FALSE
    /\ UNCHANGED <<files, mounts>>

\* cursor.execute("ROLLBACK") inside a transaction.
Rollback ==
    /\ files' = cFiles
    /\ mounts' = cMounts
    /\ inTxn' = FALSE
    /\ UNCHANGED <<cFiles, cMounts>>

----------------------------------------------------------------------------
(* IndexThread and FileIndexer.index_path.                                 *)

Threads == 1..MaxThreads

\* An IndexThread not yet created.  Beside the locals of run and index_path
\* it records what the thread did: signals (the Qt signals emitted), crawled
\* (the roots index_path was called on), and for the current index_path call
\* read (the rows appended to a batch), committed (the rows of the batches
\* its own COMMITs ended), observed (the stop flag was seen set at one of the
\* two check points) and outcome; cancelled_at is the position in paths of
\* the root that was being walked when the stop flag was seen (0: none);
\* after_stop counts the rows the current index_path call appended to its
\* batch while the stop flag was set, and skipped holds the paths whose
\* lstat raised in it.
NoThread ==
    [pc |-> "unborn", paths |-> <<>>, i |-> 0, stop_flag |-> FALSE,
     total_indexed |-> 0, root_path |-> <<>>, fs_type |-> "",
     indexed_count |-> 0, batch |-> <<>>, pending |-> <<>>, todo |-> <<>>,
     dirpath |-> <<>>, dirnames |-> <<>>, filenames |-> <<>>,
     signals |-> <<>>, crawled |-> <<>>, read |-> <<>>, committed |-> <<>>,
     observed |-> FALSE, outcome |-> "none", cancelled_at |-> 0,
     after_stop |-> 0, skipped |-> {}]

\* QThread.isRunning()
isRunning(t) ==
    IF t = 0 THEN FALSE
    ELSE threads[t].pc \notin {"unborn", "done", "crashed"}

Created == Cardinality({t \in Threads : threads[t].pc # "unborn"})

\* IndexThread(indexer, paths) followed by start().
NewThread(paths) == [NoThread EXCEPT !.pc = "run", !.paths = paths, !.i = 1]

\* return indexed_count, and total_indexed += count in IndexThread.run.  The
\* locals of index_path end with the call.
Returned(th, outcome) ==
    [th EXCEPT !.pc = "run", !.i = @ + 1,
               !.total_indexed = @ + th.indexed_count, !.outcome = outcome,
               !.batch = <<>>, !.pending = <<>>, !.todo = <<>>,
               !.dirpath = <<>>, !.dirnames = <<>>, !.filenames = <<>>,
               !.fs_type = ""]

\* IndexThread.run: the next path of the loop; index_path is entered.
RunNext(t) ==
    LET th == threads[t] IN
    /\ th.pc = "run"
    /\ th.i <= Len(th.paths)
    /\ ~th.stop_flag
    /\ threads' = [threads EXCEPT ![t] =
           [th EXCEPT !.pc = "purge", !.root_path = th.paths[th.i],
                      !.indexed_count = 0, !.batch = <<>>, !.pending = <<>>,
                      !.todo = <<>>, !.dirpath = <<>>, !.dirnames = <<>>,
                      !.filenames = <<>>,
                      !.crawled = Append(@, th.paths[th.i]),
                      !.read = <<>>, !.committed = <<>>,
                      !.observed = FALSE, !.outcome = "none",
                      !.after_stop = 0, !.skipped = {}]]
    /\ UNCHANGED <<files, mounts, cFiles, cMounts, inTxn, mainThread,
                   dlgOpen, dlgThread, amp, sArgs, sResults, backend, cursor, sStats>>

\* IndexThread.run: the loop is over (exhausted, or the stop flag was set);
\* stopped or finished is emitted.  What was recorded about the last
\* index_path call is dropped.
RunEmit(t) ==
    LET th == threads[t] IN
    /\ th.pc = "run"
    /\ (IF th.stop_flag THEN TRUE ELSE th.i > Len(th.paths))
    /\ threads' = [threads EXCEPT ![t] =
           [th EXCEPT !.pc = "done", !.root_path = <<>>,
                      !.indexed_count = 0, !.read = <<>>, !.committed = <<>>,
                      !.after_stop = 0, !.skipped = {},
                      !.observed = FALSE, !.outcome = "none",
                      !.signals = Append(@,
                          [sig |-> IF th.stop_flag THEN "stopped"
                                   ELSE "finished",
                           n |-> th.total_indexed])]]
    /\ UNCHANGED <<files, mounts, cFiles, cMounts, inTxn, mainThread,
                   dlgOpen, dlgThread, amp, sArgs, sResults, backend, cursor, sStats>>

\* detect_filesystem, then the purge: the DELETE opens a transaction when
\* none is open.
Purge(t) ==
    LET th == threads[t] IN
    /\ th.pc = "purge"
    /\ threads' = [threads EXCEPT ![t] =
           [th EXCEPT !.pc = "begin",
                      !.fs_type = detect_filesystem(th.root_path)]]
    /\ files' = DeleteUnder(files, th.root_path)
    /\ inTxn' = TRUE
    /\ UNCHANGED <<mounts, cFiles, cMounts, mainThread, dlgOpen, dlgThread,
                   amp, sArgs, sResults, backend, sStats>>
    /\ cursor' = <<>>

\* cursor.execute("BEGIN TRANSACTION"): raises inside an open transaction.
\* On success os.walk(root_path) starts.
Begin(t) ==
    LET th == threads[t] IN
    /\ th.pc = "begin"
    /\ IF inTxn
       THEN /\ threads' = [threads EXCEPT ![t] = [th EXCEPT !.pc = "except"]]
            /\ UNCHANGED inTxn
       ELSE /\ threads' = [threads EXCEPT ![t] =
                   [th EXCEPT !.pc = "walk", !.todo = <<th.root_path>>]]
            /\ inTxn' = TRUE
    /\ UNCHANGED <<files, mounts, cFiles, cMounts, mainThread, dlgOpen,
                   dlgThread, amp, sArgs, sResults, backend, sStats>>
    /\ cursor' = <<>>

\* except (OSError, PermissionError): continue
SkipEntry(th, path, pc) ==
    [th EXCEPT !.pc = pc, !.skipped = @ \cup {path}]

\* Where the loops continue: the next dirname, else the next filename, else
\* the next directory of os.walk, else the statements after the walk.
LoopPc(filenames, todo) ==
    IF filenames # <<>> THEN "file"
    ELSE IF todo # <<>> THEN "walk"
    ELSE "final_insert"

DirLoopPc(dirnames, filenames, todo) ==
    IF dirnames # <<>> THEN "dir" ELSE LoopPc(filenames, todo)

\* One iteration of "for dirpath, dirnames, filenames in os.walk(...)" up to
\* the loop over dirnames: the stop check and the filter of dirnames.
\* os.walk then descends into the kept dirnames first.
Walk(t) ==
    LET th == threads[t] IN
    /\ th.pc = "walk"
    /\ IF th.stop_flag
       THEN threads' = [threads EXCEPT ![t] =
                [th EXCEPT !.pc = "final_insert", !.observed = TRUE,
                           !.cancelled_at = th.i]]
       ELSE LET dirpath   == Head(th.todo)
                dirnames  == SelectSeq(Listing(dirpath).dirnames, KeepDir)
                filenames == Listing(dirpath).filenames
                todo      == JoinAll(dirpath, dirnames) \o Tail(th.todo)
            IN  threads' = [threads EXCEPT ![t] =
                    [th EXCEPT !.pc = DirLoopPc(dirnames, filenames, todo),
                         !.dirpath = dirpath,
                         !.dirnames = dirnames,
                         !.filenames = filenames,
                         !.todo = todo]]
    /\ UNCHANGED <<files, mounts, cFiles, cMounts, inTxn, mainThread,
                   dlgOpen, dlgThread, amp, sArgs, sResults, backend, cursor, sStats>>

\* One iteration of "for dirname in dirnames": lstat and the directory
\* tuple, or the OSError that skips the entry.  The stop flag is not read.
Dir(t) ==
    LET th  == threads[t]
        row == DirRow(th.dirpath, Head(th.dirnames), th.fs_type, SessionTime)
        pc  == DirLoopPc(Tail(th.dirnames), th.filenames, th.todo)
    IN
    /\ th.pc = "dir"
    /\ \/ /\ row.path \in Flaky
          /\ threads' = [threads EXCEPT ![t] =
                 SkipEntry([th EXCEPT !.dirnames = Tail(@)], row.path, pc)]
       \/ threads' = [threads EXCEPT ![t] =
              [th EXCEPT !.dirnames = Tail(@),
                   !.batch = Append(@, row),
                   !.read = Append(@, row),
                   !.after_stop = IF th.stop_flag THEN @ + 1 ELSE @,
                   !.pc = pc]]
    /\ UNCHANGED <<files, mounts, cFiles, cMounts, inTxn, mainThread,
                   dlgOpen, dlgThread, amp, sArgs, sResults, backend, cursor, sStats>>

\* One iteration of "for filename in filenames": the stop check, lstat, the
\* file tuple, the count, and the test of the batch length.
File(t) ==
    LET th == threads[t] IN
    /\ th.pc = "file"
    /\ IF th.stop_flag
       THEN threads' = [threads EXCEPT ![t] =
                [th EXCEPT !.pc = LoopPc(<<>>, th.todo), !.observed = TRUE,
                           !.cancelled_at = th.i]]
       ELSE LET filename == Head(th.filenames)
                row      == FileRow(th.dirpath, filename, th.fs_type,
                                    SessionTime)
            IN  \/ /\ row.path \in Flaky
                   /\ threads' = [threads EXCEPT ![t] =
                          SkipEntry([th EXCEPT !.filenames = Tail(@)],
                                    row.path,
                                    LoopPc(Tail(th.filenames), th.todo))]
                \/ threads' = [threads EXCEPT ![t] =
                       [th EXCEPT !.filenames = Tail(@),
                            !.batch = Append(@, row),
                            !.read = Append(@, row),
                            !.indexed_count = @ + 1,
                            !.pc = IF Len(th.batch) + 1 >= batch_size
                                   THEN "flush_insert"
                                   ELSE LoopPc(Tail(th.filenames), th.todo)]]
    /\ UNCHANGED <<files, mounts, cFiles, cMounts, inTxn, mainThread,
                   dlgOpen, dlgThread, amp, sArgs, sResults, backend, cursor, sStats>>

\* cursor.executemany(INSERT INTO files ..., batch) of the flush inside the
\* loop (src/main.py:266): opens a transaction when none is open.
FlushInsert(t) ==
    LET th == threads[t] IN
    /\ th.pc = "flush_insert"
    /\ files' = files \o th.batch
    /\ inTxn' = TRUE
    /\ threads' = [threads EXCEPT ![t] =
           [th EXCEPT !.pc = "flush_commit", !.pending = th.batch]]
    /\ UNCHANGED <<mounts, cFiles, cMounts, mainThread, dlgOpen, dlgThread,
                   amp, sArgs, sResults, backend, sStats>>
    /\ cursor' = <<>>

\* cursor.execute("COMMIT") of the flush (src/main.py:275): raises when no
\* transaction is open.
FlushCommit(t) ==
    LET th == threads[t] IN
    /\ th.pc = "flush_commit"
    /\ IF inTxn
       THEN /\ Commit
            /\ threads' = [threads EXCEPT ![t] =
                   [th EXCEPT !.pc = "flush_begin",
                              !.committed = @ \o th.pending,
                              !.pending = <<>>]]
       ELSE /\ threads' = [threads EXCEPT ![t] = [th EXCEPT !.pc = "except"]]
            /\ UNCHANGED <<files, mounts, cFiles, cMounts, inTxn>>
    /\ UNCHANGED <<mainThread, dlgOpen, dlgThread, amp, sArgs,
                   sResults, backend, sStats>>
    /\ cursor' = <<>>

\* cursor.execute("BEGIN TRANSACTION") of the flush (src/main.py:276), then
\* batch = [] and the progress callback when the count is a multiple of
\* progress_interval.
FlushBegin(t) ==
    LET th == threads[t] IN
    /\ th.pc = "flush_begin"
    /\ IF inTxn
       THEN /\ threads' = [threads EXCEPT ![t] = [th EXCEPT !.pc = "except"]]
            /\ UNCHANGED inTxn
       ELSE /\ inTxn' = TRUE
            /\ threads' = [threads EXCEPT ![t] =
                   [th EXCEPT !.pc = LoopPc(th.filenames, th.todo),
                        !.batch = <<>>,
                        !.signals =
                            IF th.indexed_count % progress_interval = 0
                            THEN Append(@, [sig |-> "progress",
                                            n |-> th.indexed_count])
                            ELSE @]]
    /\ UNCHANGED <<files, mounts, cFiles, cMounts, mainThread, dlgOpen,
                   dlgThread, amp, sArgs, sResults, backend, sStats>>
    /\ cursor' = <<>>

\* if batch and not (stop_flag and stop_flag.is_set()): executemany(...)
FinalInsert(t) ==
    LET th == threads[t] IN
    /\ th.pc = "final_insert"
    /\ IF th.batch # <<>> /\ ~th.stop_flag
       THEN /\ files' = files \o th.batch
            /\ inTxn' = TRUE
            /\ cursor' = <<>>
            /\ threads' = [threads EXCEPT ![t] =
                   [th EXCEPT !.pc = "final_commit", !.pending = th.batch]]
       ELSE /\ threads' = [threads EXCEPT ![t] =
                   [th EXCEPT !.pc = "final_commit"]]
            /\ UNCHANGED <<files, inTxn, cursor>>
    /\ UNCHANGED <<mounts, cFiles, cMounts, mainThread, dlgOpen, dlgThread,
                   amp, sArgs, sResults, backend, sStats>>

\* cursor.execute("COMMIT") after the walk (src/main.py:298).
FinalCommit(t) ==
    LET th == threads[t] IN
    /\ th.pc = "final_commit"
    /\ IF inTxn
       THEN /\ Commit
            /\ threads' = [threads EXCEPT ![t] =
                   [th EXCEPT !.pc = "update",
                              !.committed = @ \o th.pending,
                              !.pending = <<>>]]
       ELSE /\ threads' = [threads EXCEPT ![t] = [th EXCEPT !.pc = "except"]]
            /\ UNCHANGED <<files, mounts, cFiles, cMounts, inTxn>>
    /\ UNCHANGED <<mainThread, dlgOpen, dlgThread, amp, sArgs,
                   sResults, backend, sStats>>
    /\ cursor' = <<>>

\* if not stop: UPDATE mount_points SET last_indexed = now WHERE path = root
\* (the UPDATE opens a transaction when none is open); else index_path
\* returns.
Update(t) ==
    LET th == threads[t] IN
    /\ th.pc = "update"
    /\ IF ~th.stop_flag
       THEN /\ mounts' = UpdateLastIndexed(mounts, th.root_path,
                                              SessionTime)
            /\ inTxn' = TRUE
            /\ cursor' = <<>>
            /\ threads' = [threads EXCEPT ![t] =
                   [th EXCEPT !.pc = "update_commit"]]
       ELSE /\ threads' = [threads EXCEPT ![t] = Returned(th, "cancelled")]
            /\ UNCHANGED <<mounts, inTxn, cursor>>
    /\ UNCHANGED <<files, cFiles, cMounts, mainThread, dlgOpen, dlgThread,
                   amp, sArgs, sResults, backend, sStats>>

\* self.conn.commit() (src/main.py:307): a no-op outside a transaction; then
\* index_path returns.
UpdateCommit(t) ==
    LET th == threads[t] IN
    /\ th.pc = "update_commit"
    /\ IF inTxn THEN Commit
       ELSE UNCHANGED <<files, mounts, cFiles, cMounts, inTxn>>
    /\ threads' = [threads EXCEPT ![t] = Returned(th, "completed")]
    /\ UNCHANGED <<mainThread, dlgOpen, dlgThread, amp, sArgs,
                   sResults, backend, cursor, sStats>>

\* except Exception: cursor.execute("ROLLBACK"), which itself raises when no
\* transaction is open: the exception then leaves index_path and run, and
\* the thread ends without a signal.
Except(t) ==
    LET th == threads[t] IN
    /\ th.pc = "except"
    /\ IF inTxn
       THEN /\ Rollback
            /\ threads' = [threads EXCEPT ![t] = Returned(th, "failed")]
       ELSE /\ threads' = [threads EXCEPT ![t] =
                   [th EXCEPT !.pc = "crashed", !.outcome = "raised",
                        !.batch = <<>>, !.pending = <<>>, !.todo = <<>>,
                        !.dirpath = <<>>, !.dirnames = <<>>,
                        !.filenames = <<>>,
                        !.fs_type = ""]]
            /\ UNCHANGED <<files, mounts, cFiles, cMounts, inTxn>>
    /\ UNCHANGED <<mainThread, dlgOpen, dlgThread, amp, sArgs,
                   sResults, backend, sStats>>
    /\ cursor' = <<>>

----------------------------------------------------------------------------
(* The UI thread: MainWindow, IndexerWindow, MountPointDialog.             *)

\* The UI thread is inside no handler.
UiIdle == amp.pc = "idle"

\* The sub-lists of a list, in list order.
RECURSIVE SubLists(_)
SubLists(list) ==
    IF list = <<>> THEN {<<>>}
    ELSE LET rest == SubLists(Tail(list))
         IN  rest \cup {<<Head(list)>> \o l : l \in rest}

\* MainWindow.index_all: a new IndexThread over the enabled locations unless
\* MainWindow.index_thread is running.  (With no location it opens the
\* location dialog instead.)
index_all ==
    LET enabled_mounts == EnabledPaths(mounts) IN
    /\ UiIdle
    /\ ~dlgOpen
    /\ enabled_mounts # <<>>
    /\ ~isRunning(mainThread)
    /\ Created < MaxThreads
    /\ threads' = [threads EXCEPT ![Created + 1] = NewThread(enabled_mounts)]
    /\ mainThread' = Created + 1
    /\ UNCHANGED <<files, mounts, cFiles, cMounts, inTxn, dlgOpen, dlgThread,
                   amp, sArgs, sResults, backend, cursor, sStats>>

\* MainWindow.show_indexer_window: a new IndexerWindow (index_thread None)
\* is executed as a modal dialog.
show_indexer_window ==
    /\ UiIdle
    /\ ~dlgOpen
    /\ dlgOpen' = TRUE
    /\ dlgThread' = 0
    /\ UNCHANGED <<files, mounts, cFiles, cMounts, inTxn, threads, mainThread,
                   amp, sArgs, sResults, backend, cursor, sStats>>

\* The dialog's Close button (QDialog.accept): the dialog ends, its thread is
\* neither stopped nor waited for.
accept ==
    /\ UiIdle
    /\ dlgOpen
    /\ dlgOpen' = FALSE
    /\ dlgThread' = 0
    /\ UNCHANGED <<files, mounts, cFiles, cMounts, inTxn, threads, mainThread,
                   amp, sArgs, sResults, backend, cursor, sStats>>

\* The dialog's two index buttons are enabled: they are disabled by
\* start_indexing and enabled again by on_index_finished/on_index_stopped.
ButtonsEnabled ==
    IF dlgThread = 0 THEN TRUE ELSE threads[dlgThread].pc = "done"

\* IndexerWindow.start_indexing(paths)
start_indexing(paths) ==
    IF isRunning(dlgThread)
    THEN UNCHANGED <<threads, dlgThread>>
    ELSE /\ threads' = [threads EXCEPT ![Created + 1] = NewThread(paths)]
         /\ dlgThread' = Created + 1

\* IndexerWindow.index_all_enabled
index_all_enabled ==
    LET enabled == EnabledPaths(mounts) IN
    /\ UiIdle
    /\ dlgOpen
    /\ ButtonsEnabled
    /\ enabled # <<>>
    /\ Created < MaxThreads
    /\ start_indexing(enabled)
    /\ UNCHANGED <<files, mounts, cFiles, cMounts, inTxn, mainThread, dlgOpen,
                   amp, sArgs, sResults, backend, cursor, sStats>>

\* add_mount_point(path, fs_type) on the UI thread, taken as one step: the
\* INSERT OR REPLACE (which opens a transaction when none is open), then
\* self.conn.commit(), which commits whatever the connection's transaction
\* holds.  Given the table, returns the table.
add_mount_point(tbl, path, fs_type) ==
    InsertOrReplaceMount(tbl, path,
        IF fs_type = "" THEN detect_filesystem(path) ELSE fs_type)

\* for drive in selected: self.indexer.add_mount_point(drive, fs_type)
RECURSIVE AddSelected(_, _)
AddSelected(tbl, selected) ==
    IF selected = <<>> THEN tbl
    ELSE AddSelected(
             add_mount_point(tbl, Head(selected).path,
                             Head(selected).filesystem_type),
             Tail(selected))

\* IndexerWindow.index_selected: add_mount_point(drive, fs_type) for every
\* checked row of the drive list, with the type the list shows, then
\* start_indexing(selected).
index_selected ==
    /\ amp.pc = "idle"
    /\ dlgOpen
    /\ ButtonsEnabled
    /\ Created < MaxThreads
    /\ \E sel \in SubLists([k \in 1..Len(mounts) |-> k]) :
          /\ sel # <<>>
          /\ mounts' = AddSelected(mounts, [k \in 1..Len(sel) |-> mounts[sel[k]]])
          /\ start_indexing([k \in 1..Len(sel) |-> mounts[sel[k]].path])
    /\ cMounts' = mounts'
    /\ cFiles' = files
    /\ inTxn' = FALSE
    /\ UNCHANGED <<files, mainThread, dlgOpen, amp, sArgs, sResults, backend, sStats>>
    /\ cursor' = <<>>

\* MountPointDialog.add_custom_path and IndexerWindow.add_drive:
\* add_mount_point(path), the filesystem type detected.
add_custom_path ==
    /\ amp.pc = "idle"
    /\ amp.adds < MaxAdds
    /\ \E k \in 1..Len(Roots) :
          mounts' = add_mount_point(mounts, Roots[k], "")
    /\ cMounts' = mounts'
    /\ cFiles' = files
    /\ inTxn' = FALSE
    /\ amp' = [amp EXCEPT !.adds = @ + 1]
    /\ UNCHANGED <<files, threads, mainThread, dlgOpen, dlgThread, sArgs,
                   sResults, backend, sStats>>
    /\ cursor' = <<>>

\* MainWindow.stop_indexing
stop_main ==
    /\ UiIdle
    /\ ~dlgOpen
    /\ isRunning(mainThread)
    /\ ~threads[mainThread].stop_flag
    /\ threads' = [threads EXCEPT ![mainThread].stop_flag = TRUE]
    /\ UNCHANGED <<files, mounts, cFiles, cMounts, inTxn, mainThread, dlgOpen,
                   dlgThread, amp, sArgs, sResults, backend, cursor, sStats>>

\* IndexerWindow.stop_indexing
stop_indexing ==
    /\ UiIdle
    /\ dlgOpen
    /\ isRunning(dlgThread)
    /\ ~threads[dlgThread].stop_flag
    /\ threads' = [threads EXCEPT ![dlgThread].stop_flag = TRUE]
    /\ UNCHANGED <<files, mounts, cFiles, cMounts, inTxn, mainThread, dlgOpen,
                   dlgThread, amp, sArgs, sResults, backend, cursor, sStats>>

----------------------------------------------------------------------------
(* The system.                                                             *)

\* The database file persists between sessions: FileIndexer() finds either
\* no rows, or what an earlier session left: /a registered and indexed at
\* time 0, when it held sub, a.txt and o.txt (since deleted).
PriorFiles ==
    <<DirRow(sRootA, nSub, "ext4", 0), FileRow(sRootA, nAtxt, "ext4", 0),
      FileRow(sRootA, nOld, "ext4", 0)>>

PriorMounts ==
    <<[path |-> sRootA, filesystem_type |-> "ext4", last_indexed |-> 0,
       enabled |-> 1]>>

Init ==
    /\ \/ cFiles = <<>> /\ cMounts = <<>>
       \/ cFiles = PriorFiles /\ cMounts = PriorMounts
    /\ files = cFiles
    /\ mounts = cMounts
    /\ inTxn = FALSE
    /\ threads = [t \in Threads |-> NoThread]
    /\ mainThread = 0
    /\ dlgOpen = FALSE
    /\ dlgThread = 0
    /\ amp = [pc |-> "idle", adds |-> 0, file_count |-> 0, dir_count |-> 0]
    /\ sArgs = <<>>
    /\ sResults = <<>>
    /\ backend = "python"
    /\ cursor = <<>>
    /\ sStats = <<>>

Next ==
    \/ \E t \in Threads :
          \/ RunNext(t) \/ RunEmit(t) \/ Purge(t) \/ Begin(t) \/ Walk(t)
          \/ Dir(t) \/ File(t) \/ FlushInsert(t) \/ FlushCommit(t) \/ FlushBegin(t)
          \/ FinalInsert(t) \/ FinalCommit(t) \/ Update(t) \/ UpdateCommit(t)
          \/ Except(t)
    \/ index_all \/ show_indexer_window \/ accept \/ index_all_enabled
    \/ index_selected \/ add_custom_path
    \/ stop_main \/ stop_indexing

Spec == Init /\ [][Next]_vars

\* A step of the program in which no second IndexThread is created.
OneThread == Next /\ \A t \in Threads \ {1} : threads'[t].pc = "unborn"

\* The database file of an earlier session that registered /c and indexed
\* nothing.
CrawlMounts ==
    <<[path |-> sRootC, filesystem_type |-> "ext4", last_indexed |-> NULL,
       enabled |-> 1]>>

InitCrawl ==
    /\ cFiles = <<>>
    /\ cMounts = CrawlMounts
    /\ files = cFiles
    /\ mounts = cMounts
    /\ inTxn = FALSE
    /\ threads = [t \in Threads |-> NoThread]
    /\ mainThread = 0
    /\ dlgOpen = FALSE
    /\ dlgThread = 0
    /\ amp = [pc |-> "idle", adds |-> 0, file_count |-> 0, dir_count |-> 0]
    /\ sArgs = <<>>
    /\ sResults = <<>>
    /\ backend = "python"
    /\ cursor = <<>>
    /\ sStats = <<>>

\* The program with one IndexThread, started over /c.
SpecCrawl == InitCrawl /\ [][OneThread]_vars

----------------------------------------------------------------------------
(* The reads of the UI thread, statement by statement, on the cursor it    *)
(* shares with the IndexThread.  SpecUi is the program with one            *)
(* IndexThread, one perform_search and one update_stats.                   *)

\* SELECT COUNT(*) FROM files WHERE is_directory = d
CountWhere(tbl, d) ==
    Cardinality({k \in 1..Len(tbl) : tbl[k].is_directory = d})

\* SELECT SUM(size) FROM files WHERE is_directory = 0, with "or 0" applied to
\* the NULL of an empty sum.
RECURSIVE SumSize(_)
SumSize(tbl) ==
    IF tbl = <<>> THEN 0
    ELSE (IF Head(tbl).is_directory = 0 THEN Head(tbl).size ELSE 0)
         + SumSize(Tail(tbl))

\* What perform_search is called with in SpecUi.
UiSearchArgs ==
    {[query |-> q, match_case |-> FALSE, regex_mode |-> m,
      max_results |-> MaxResults, search_path |-> FALSE, file_type |-> "all",
      drive_filter |-> <<>>] : q \in {<<".">>, <<"(">>}, m \in BOOLEAN}

\* A search whose SELECT opens a transaction, as a statement does on a
\* connection that is not in sqlite3's legacy transaction mode.
search_execute_in_txn ==
    /\ amp.pc = "idle"
    /\ sArgs = <<>>
    /\ \E a \in UiSearchArgs :
          /\ sArgs' = <<a>>
          /\ cursor' = <<search(files, a)>>
    /\ amp' = [amp EXCEPT !.pc = "fetchall"]
    /\ inTxn' = TRUE
    /\ UNCHANGED <<files, mounts, cFiles, cMounts, threads, mainThread,
                   dlgOpen, dlgThread, sResults, backend, sStats>>

\* search up to self.cursor.execute(sql, params): the statement's result set
\* is on the cursor.
search_execute ==
    /\ UiIdle
    /\ sArgs = <<>>
    /\ \E a \in UiSearchArgs :
          /\ sArgs' = <<a>>
          /\ cursor' = <<search(files, a)>>
    /\ amp' = [amp EXCEPT !.pc = "fetchall"]
    /\ UNCHANGED <<files, mounts, cFiles, cMounts, inTxn, threads, mainThread,
                   dlgOpen, dlgThread, sResults, backend, sStats>>

\* self.cursor.fetchall() and the return: [] when another statement was
\* executed on the cursor in between.
search_fetchall ==
    /\ amp.pc = "fetchall"
    /\ sResults' = IF cursor = <<>> THEN <<>> ELSE cursor[1]
    /\ cursor' = <<>>
    /\ amp' = [amp EXCEPT !.pc = "idle"]
    /\ UNCHANGED <<files, mounts, cFiles, cMounts, inTxn, threads, mainThread,
                   dlgOpen, dlgThread, sArgs, backend, sStats>>

\* get_stats: one of its three self.cursor.execute("SELECT ...").
stats_execute ==
    /\ \/ UiIdle /\ sStats = <<>>
       \/ amp.pc \in {"execute2", "execute3"}
    /\ cursor' = <<CASE amp.pc = "idle" -> CountWhere(files, 0)
                     [] amp.pc = "execute2" -> CountWhere(files, 1)
                     [] OTHER -> SumSize(files)>>
    /\ amp' = [amp EXCEPT !.pc = CASE amp.pc = "idle" -> "fetchone1"
                                   [] amp.pc = "execute2" -> "fetchone2"
                                   [] OTHER -> "fetchone3"]
    /\ UNCHANGED <<files, mounts, cFiles, cMounts, inTxn, threads, mainThread,
                   dlgOpen, dlgThread, sArgs, sResults, backend, sStats>>

\* get_stats: self.cursor.fetchone()[0].  fetchone() is None when another
\* statement was executed on the cursor in between: the TypeError is caught
\* and the zeros are returned.
stats_fetchone ==
    /\ amp.pc \in {"fetchone1", "fetchone2", "fetchone3"}
    /\ cursor' = <<>>
    /\ IF cursor = <<>>
       THEN /\ sStats' = <<[files |-> 0, directories |-> 0, total_size |-> 0]>>
            /\ amp' = [amp EXCEPT !.pc = "idle", !.file_count = 0,
                                  !.dir_count = 0]
       ELSE CASE amp.pc = "fetchone1" ->
                   /\ amp' = [amp EXCEPT !.pc = "execute2",
                                         !.file_count = cursor[1]]
                   /\ UNCHANGED sStats
              [] amp.pc = "fetchone2" ->
                   /\ amp' = [amp EXCEPT !.pc = "execute3",
                                         !.dir_count = cursor[1]]
                   /\ UNCHANGED sStats
              [] OTHER ->
                   /\ sStats' = <<[files |-> amp.file_count,
                                   directories |-> amp.dir_count,
                                   total_size |-> cursor[1]]>>
                   /\ amp' = [amp EXCEPT !.pc = "idle", !.file_count = 0,
                                         !.dir_count = 0]
    /\ UNCHANGED <<files, mounts, cFiles, cMounts, inTxn, threads, mainThread,
                   dlgOpen, dlgThread, sArgs, sResults, backend>>

NextUi ==
    \/ OneThread
    \/ search_execute \/ search_fetchall
    \/ stats_execute \/ stats_fetchone

SpecUi == Init /\ [][NextUi]_vars

----------------------------------------------------------------------------
(* Closing the windows.  SpecClose is the program with one IndexThread and *)
(* the close events of the indexer window and of the main window.          *)

\* FileIndexer.close: conn.close(), which drops the statements of a
\* transaction that was not committed.
close ==
    /\ files' = cFiles
    /\ mounts' = cMounts
    /\ inTxn' = FALSE
    /\ UNCHANGED <<cFiles, cMounts>>

\* IndexerWindow.closeEvent (the window's close box, not the Close button):
\* with its own thread running and the answer Yes, stop() and then wait();
\* with no thread running the dialog closes.  The answer No changes
\* nothing.
IndexerWindow_closeEvent ==
    /\ UiIdle
    /\ dlgOpen
    /\ IF isRunning(dlgThread)
       THEN /\ threads' = [threads EXCEPT ![dlgThread].stop_flag = TRUE]
            /\ amp' = [amp EXCEPT !.pc = "dialog_wait"]
            /\ UNCHANGED <<dlgOpen, dlgThread>>
       ELSE /\ dlgOpen' = FALSE
            /\ dlgThread' = 0
            /\ UNCHANGED <<threads, amp>>
    /\ UNCHANGED <<files, mounts, cFiles, cMounts, inTxn, mainThread, sArgs,
                   sResults, backend, cursor, sStats>>

\* index_thread.wait() of IndexerWindow.closeEvent returns; event.accept().
IndexerWindow_wait ==
    /\ amp.pc = "dialog_wait"
    /\ ~isRunning(dlgThread)
    /\ amp' = [amp EXCEPT !.pc = "idle"]
    /\ dlgOpen' = FALSE
    /\ dlgThread' = 0
    /\ UNCHANGED <<files, mounts, cFiles, cMounts, inTxn, threads, mainThread,
                   sArgs, sResults, backend, cursor, sStats>>

\* MainWindow.closeEvent, which the modal dialogs keep from running while
\* they are open: with MainWindow.index_thread running and the answer Yes,
\* stop() and then wait(); otherwise indexer.close() and event.accept().
\* The answer No changes nothing.
MainWindow_closeEvent ==
    /\ UiIdle
    /\ ~dlgOpen
    /\ IF isRunning(mainThread)
       THEN /\ threads' = [threads EXCEPT ![mainThread].stop_flag = TRUE]
            /\ amp' = [amp EXCEPT !.pc = "wait"]
            /\ UNCHANGED <<files, mounts, cFiles, cMounts, inTxn>>
       ELSE /\ close
            /\ amp' = [amp EXCEPT !.pc = "closed"]
            /\ UNCHANGED threads
    /\ UNCHANGED <<mainThread, dlgOpen, dlgThread, sArgs, sResults, backend,
                   cursor, sStats>>

\* index_thread.wait() of MainWindow.closeEvent returns; indexer.close()
\* and event.accept().
MainWindow_wait ==
    /\ amp.pc = "wait"
    /\ ~isRunning(mainThread)
    /\ close
    /\ amp' = [amp EXCEPT !.pc = "closed"]
    /\ UNCHANGED <<threads, mainThread, dlgOpen, dlgThread, sArgs, sResults,
                   backend, cursor, sStats>>

\* The main window is closed: app.exec() returns and main ends the process
\* with sys.exit.
Exited == amp.pc = "closed"

\* A step of the program with one IndexThread while the process lives.
OneThreadLive == ~Exited /\ OneThread

NextClose ==
    \/ OneThreadLive
    \/ IndexerWindow_closeEvent \/ IndexerWindow_wait
    \/ MainWindow_closeEvent \/ MainWindow_wait

SpecClose == Init /\ [][NextClose]_vars

----------------------------------------------------------------------------
(* FileIndexer.search as a function of the table and its arguments.        *)
(* SpecSearch draws a table the crawler can have written and applies       *)
(* search once to every combination of arguments.                          *)

nTxtDir == <<"T", "x", "t">>

\* A registered location whose name holds an underscore: /a_
sRootAU == <<"/", "a", "_">>

\* Rows of three crawled roots, in rowid order.
SearchRows ==
    <<FileRow(sRootA, nAtxt, "ext4", 0), FileRow(sRootA, nBtxt, "ext4", 0),
      DirRow(sRootA, nSub, "ext4", 0), FileRow(sRootA2, nDtxt, "unknown", 0),
      DirRow(sRootA2, nTxtDir, "unknown", 0),
      FileRow(sRootC, nZtxt, "ext4", 0)>>

Queries ==
    {<<>>, <<"t", "x", "t">>, <<"T", "X", "T">>, <<"b">>, <<".">>, <<"(">>,
     <<"_">>}

SearchArgs ==
    [query : Queries, match_case : BOOLEAN, regex_mode : BOOLEAN,
     max_results : 0..MaxResults, search_path : BOOLEAN,
     file_type : {"all", "files", "folders"},
     drive_filter : {<<>>, AllLocations, sRootA, sRootA2, sRootAU, sRootC}]

SearchInit ==
    /\ files \in SubLists(SearchRows)
    /\ cFiles = files
    /\ mounts = <<>>
    /\ cMounts = <<>>
    /\ inTxn = FALSE
    /\ threads = [t \in Threads |-> NoThread]
    /\ mainThread = 0
    /\ dlgOpen = FALSE
    /\ dlgThread = 0
    /\ amp = [pc |-> "idle", adds |-> 0, file_count |-> 0, dir_count |-> 0]
    /\ sArgs = <<>>
    /\ sResults = <<>>
    /\ backend \in {"python", "nim"}
    /\ cursor = <<>>
    /\ sStats = <<>>

\* NimFileIndexer.search: the empty query returns [] before the library is
\* called; otherwise the rows the library handed back (lib), [] when it
\* reported no success.
NimSearch(a, lib) == IF a.query = <<>> THEN <<>> ELSE lib

\* What libfindit_backend's search can hand back: the library is not part of
\* the sources, so any list of rows of the table, in table order.
LibAnswers(tbl) == SubLists(SelectColumns(tbl))

\* perform_search on the Nim path: the location filter is applied to the
\* rows search returned, by str.startswith.
FilterStartsWith(results, drive_filter) ==
    IF drive_filter # <<>> /\ drive_filter # AllLocations
    THEN LET keep(r) == StartsWith(r.path, drive_filter)
         IN  SelectSeq(results, keep)
    ELSE results

\* One search on the UI thread: FileIndexer.search with the location filter
\* as an argument, or NimFileIndexer.search followed by the caller's
\* location filter.
Search ==
    /\ sArgs = <<>>
    /\ \E a \in SearchArgs :
          /\ sArgs' = <<a>>
          /\ IF backend = "python"
             THEN sResults' = search(files, a)
             ELSE \E lib \in LibAnswers(files) :
                     sResults' = FilterStartsWith(NimSearch(a, lib),
                                                  a.drive_filter)
    /\ UNCHANGED <<files, mounts, cFiles, cMounts, inTxn, threads, mainThread,
                   dlgOpen, dlgThread, amp, backend, cursor, sStats>>

SearchNext == Search

SpecSearch == SearchInit /\ [][SearchNext]_vars

----------------------------------------------------------------------------
(* Properties of search.                                                   *)

\* FileIndexer.search has been called.
Searched == sArgs # <<>> /\ backend = "python"

\* text contains q as a contiguous substring, letter case included.
Contains(text, q) ==
    \E k \in 0..(Len(text) - Len(q)) : SubSeq(text, k + 1, k + Len(q)) = q

\* The text a query is matched against: the path or the file name.
Target(r, a) == IF a.search_path THEN r.path ELSE r.filename

\* C7: with file_type "files" every result is a file and with "folders"
\* every result is a directory, in literal mode and in regex mode alike.
C7_TypeFilter ==
    Searched =>
        /\ sArgs[1].file_type = "files" =>
              \A k \in 1..Len(sResults) : sResults[k].is_directory = 0
        /\ sArgs[1].file_type = "folders" =>
              \A k \in 1..Len(sResults) : sResults[k].is_directory = 1

\* C8: a search with max_results >= 0 returns at most max_results rows.
C8_AtMostMaxResults ==
    Searched => Len(sResults) <= sArgs[1].max_results

\* A regex search over a table where more rows match than max_results
\* allows, answered with exactly max_results rows.
C8_Witness ==
    /\ Searched
    /\ sArgs[1].regex_mode
    /\ sArgs[1].max_results = MaxResults
    /\ Len(sResults) = MaxResults
    /\ Len(search(files, [sArgs[1] EXCEPT !.max_results = Len(files) + 1]))
          > MaxResults

\* C9: results come directories first, and within each group by file name
\* ascending without regard to letter case.
C9_Ordered ==
    Searched =>
        \A j, k \in 1..Len(sResults) :
            j < k =>
                /\ sResults[j].is_directory >= sResults[k].is_directory
                /\ sResults[j].is_directory = sResults[k].is_directory =>
                      ~NocaseLess(sResults[k].filename, sResults[j].filename)

\* The query holds one of LIKE's wildcards.
HasWildcard(q) == \E k \in 1..Len(q) : q[k] \in {"%", "_"}

\* C10: a literal search with match_case returns only rows whose target
\* contains the query with identical letter case (stated for the queries
\* that hold no LIKE wildcard).
C10_MatchCase ==
    (/\ Searched
     /\ ~sArgs[1].regex_mode
     /\ sArgs[1].match_case
     /\ ~HasWildcard(sArgs[1].query)) =>
        \A k \in 1..Len(sResults) :
            Contains(Target(sResults[k], sArgs[1]), sArgs[1].query)

\* C11: a regex search whose pattern does not compile hands its caller an
\* outcome that differs from the [] of a search without matches.
C11_ErrorOutcome ==
    (Searched /\ sArgs[1].regex_mode /\ ~ReCompiles(sArgs[1].query)) =>
        sResults # <<>>

\* C12: a search for the empty query returns [], whatever the other
\* arguments and the table are, on the Python and on the Nim-backed indexer.
C12_EmptyQuery ==
    (sArgs # <<>> /\ sArgs[1].query = <<>>) => sResults = <<>>

\* The empty query was searched for in a table that holds rows, with no
\* filter that would exclude them and room for results.
C12_Witness ==
    /\ sArgs # <<>>
    /\ backend = "python"
    /\ sArgs[1].query = <<>>
    /\ sArgs[1].file_type = "all"
    /\ sArgs[1].drive_filter = <<>>
    /\ sArgs[1].max_results = MaxResults
    /\ Len(files) >= MaxResults
    /\ sResults = <<>>

\* C18: with a location filter other than "All Locations", every row
\* returned has a path that begins with the filter exactly as written, on
\* either backend.
C18_LocationFilter ==
    (/\ sArgs # <<>>
     /\ sArgs[1].drive_filter # <<>>
     /\ sArgs[1].drive_filter # AllLocations) =>
        \A k \in 1..Len(sResults) :
            StartsWith(sResults[k].path, sArgs[1].drive_filter)

\* C19: when get_stats returns, files is the number of rows that are not
\* directories, directories the number of rows that are, and total_size the
\* sum of the sizes of the rows that are not directories.
C19_Stats ==
    [][(sStats = <<>> /\ sStats' # <<>>) =>
          sStats'[1] = [files |-> CountWhere(files', 0),
                        directories |-> CountWhere(files', 1),
                        total_size |-> SumSize(files')]]_vars

\* C31: every row a literal search returns has a target (filename, or path
\* with search_path) that contains the query as a substring, letter case
\* apart: "%" and "_" in the query stand for themselves.
C31_LiteralSubstring ==
    (Searched /\ ~sArgs[1].regex_mode) =>
        \A k \in 1..Len(sResults) :
            Contains(Lower(Target(sResults[k], sArgs[1])),
                     Lower(sArgs[1].query))

Min(m, n) == IF m <= n THEN m ELSE n

\* C32: a regex search whose pattern is not empty and compiles returns, in
\* order, the first
\* max_results rows whose target matches the pattern among the first
\* 5 * max_results rows of the listing (the rows the location clause
\* selects, in the order of ORDER BY).
C32_RegexCap ==
    (/\ Searched
     /\ sArgs[1].regex_mode
     /\ sArgs[1].query # <<>>
     /\ ReCompiles(sArgs[1].query)) =>
        LET a        == sArgs[1]
            where(r) == DriveClause(r, a.drive_filter)
            listing  == SelectColumns(OrderBy(SelectSeq(files, where)))
            cand     == SubSeq(listing, 1,
                               Min(5 * a.max_results, Len(listing)))
            hit(r)   == ReSearch(a.query, Target(r, a), ~a.match_case)
            hits     == SelectSeq(cand, hit)
        IN  sResults = SubSeq(hits, 1, Min(a.max_results, Len(hits)))

\* A regex search over a listing of six rows with max_results = 1: the one
\* row that matches, z.TXT, is the sixth and is not returned.
C32_Witness ==
    /\ Searched
    /\ sArgs[1].regex_mode
    /\ sArgs[1].query = <<"T", "X", "T">>
    /\ sArgs[1].match_case
    /\ ~sArgs[1].search_path
    /\ sArgs[1].drive_filter = <<>>
    /\ sArgs[1].max_results = 1
    /\ Len(files) = 6
    /\ sResults = <<>>

\* The number of rows of tbl beneath the location R that the literal search
\* with arguments a matches.
MatchesBeneath(tbl, a, R) ==
    Cardinality({k \in 1..Len(tbl) :
        /\ LikeClause(tbl[k], a.query, a.match_case, a.search_path)
        /\ TypeClause(tbl[k], a.file_type)
        /\ StartsWith(tbl[k].path, R)})

\* The locations /a2 and /c, neither a prefix of the other.
SeparateRoots == {sRootA2, sRootC}

\* C38: a literal search with a location filter R shows
\* min(max_results, matching rows beneath R) rows.  On the Python path this
\* is said of the search made.  On the Nim path, where lib.search is called
\* without the location, it is said of the call: the library has an answer
\* of at most max_results rows that perform_search filters to that many
\* rows whichever location is chosen.
C38_FilterBeforeCap ==
    (sArgs # <<>> /\ ~sArgs[1].regex_mode /\ sArgs[1].query # <<>>) =>
        LET a == sArgs[1] IN
        IF backend = "python"
        THEN a.drive_filter \in SeparateRoots =>
                 Len(sResults)
                     = Min(a.max_results,
                           MatchesBeneath(files, a, a.drive_filter))
        ELSE \E lib \in LibAnswers(files) :
                 /\ Len(lib) <= a.max_results
                 /\ \A R \in SeparateRoots :
                        Len(FilterStartsWith(NimSearch(a, lib), R))
                            = Min(a.max_results, MatchesBeneath(files, a, R))

----------------------------------------------------------------------------
(* Properties of the crawler and of the runs.                              *)

Range(seq) == {seq[k] : k \in 1..Len(seq)}

\* The rows of a table whose path lies beneath root.
RowsBeneath(tbl, root) ==
    {r \in Range(tbl) : StartsWith(r.path, root \o <<"/">>)}

PathsOf(rows) == {r.path : r \in rows}

Running == {t \in Threads : isRunning(t)}

Terminal(th) ==
    {k \in 1..Len(th.signals) : th.signals[k].sig \in {"stopped", "finished"}}

HasMount(tbl, p) == \E k \in 1..Len(tbl) : tbl[k].path = p

LastIndexedOf(tbl, p) ==
    tbl[CHOOSE k \in 1..Len(tbl) : tbl[k].path = p].last_indexed

\* index_path of thread t returns in this step, after the stop flag was
\* seen inside the walk.
ReturnsCancelled(t) ==
    /\ threads[t].pc = "update"
    /\ threads'[t].pc = "run"
    /\ threads[t].observed

\* index_path of thread t returns in this step after the walk ran to its end
\* and last_indexed was written.
ReturnsCompleted(t) ==
    /\ threads[t].pc = "update_commit"
    /\ threads'[t].pc = "run"

\* C1: when a crawl of a root that was cancelled inside the walk returns,
\* the rows beneath the root are exactly the rows of the batches this crawl
\* committed: no row from before the crawl and no row of an uncommitted
\* batch.
C1_CancelledStore ==
    [][\A t \in Threads :
          ReturnsCancelled(t) =>
              RowsBeneath(files', threads[t].root_path)
                  = Range(threads[t].committed)]_vars

\* C2: last_indexed of a registered location changes only in the step of a
\* crawl of that location that reached the UPDATE without cancellation.
C2_OnlyCompletedCrawl ==
    [][\A k \in 1..Len(Roots) :
          (/\ HasMount(mounts, Roots[k])
           /\ HasMount(mounts', Roots[k])
           /\ LastIndexedOf(mounts', Roots[k]) # LastIndexedOf(mounts, Roots[k]))
          => \E t \in Threads :
                /\ threads[t].root_path = Roots[k]
                /\ threads[t].pc = "update"
                /\ ~threads[t].stop_flag
                /\ threads'[t].pc = "update_commit"]_vars

\* C3: when a crawl that ran to its end without cancellation or store error
\* returns, the paths beneath the root in the table are exactly the paths
\* the walk read.
C3_CompletedStore ==
    [][\A t \in Threads :
          ReturnsCompleted(t) =>
              PathsOf(RowsBeneath(files', threads[t].root_path))
                  = PathsOf(Range(threads[t].read))]_vars

\* C4: at most one IndexThread is running at any time.
C4_OneRun == Cardinality(Running) <= 1

\* C5: a run that has ended has emitted exactly one terminal signal,
\* stopped(total) when the stop flag was set and finished(total) otherwise,
\* with total the sum of the counts its index_path calls returned.
C5_OneTerminal ==
    \A t \in Threads :
        threads[t].pc \in {"done", "crashed"} =>
            /\ Cardinality(Terminal(threads[t])) = 1
            /\ LET e == threads[t].signals[Len(threads[t].signals)]
               IN  /\ e.sig = IF threads[t].stop_flag THEN "stopped"
                             ELSE "finished"
                   /\ e.n = threads[t].total_indexed

\* C6: a run whose stop flag was seen while root number i of its paths was
\* walked crawls no later root and ends with the stopped signal.
C6_StopDuringRoot ==
    \A t \in Threads :
        (threads[t].cancelled_at > 0 /\ threads[t].pc \in {"done", "crashed"})
        => /\ Len(threads[t].crawled) = threads[t].cancelled_at
           /\ threads[t].signals # <<>>
           /\ threads[t].signals[Len(threads[t].signals)].sig = "stopped"

\* C13: the SELECT of a search and the first SELECT of get_stats, executed
\* on the UI thread, see the tables as of the last commit: no row of a batch
\* inserted but not committed and no effect of a purge not committed.
C13_ReadCommitted ==
    [][/\ (sArgs = <<>> /\ sArgs' # <<>>) =>
              cursor' = <<search(cFiles, sArgs'[1])>>
       /\ (amp.pc = "idle" /\ amp'.pc = "fetchone1") =>
              cursor' = <<CountWhere(cFiles, 0)>>]_vars

\* C14: when a statement of the crawl of a root has raised, index_path
\* ends by returning its count to run (which goes on with the next root),
\* and afterwards the rows of the batches it committed are in the table.
C14_FailureReturns ==
    [][\A t \in Threads :
          (threads[t].pc = "except" /\ threads'[t].pc # "except") =>
              /\ threads'[t].pc = "run"
              /\ threads'[t].total_indexed
                    = threads[t].total_indexed + threads[t].indexed_count
              /\ Range(threads[t].committed) \subseteq Range(files')]_vars

\* C15: no two rows of table files have the same path.
C15_UniquePaths ==
    \A j, k \in 1..Len(files) : j # k => files[j].path # files[k].path

\* The columns of an entry that do not depend on when it was indexed.
Entry(r) ==
    [path |-> r.path, filename |-> r.filename, extension |-> r.extension,
     size |-> r.size, modified |-> r.modified,
     is_directory |-> r.is_directory]

Entries(rows) == {Entry(r) : r \in rows}

\* The rows a walk of the directories in todo reads when no lstat fails.
RECURSIVE Tree(_)
Tree(todo) ==
    IF todo = <<>> THEN <<>>
    ELSE LET dirpath   == Head(todo)
             dirnames  == SelectSeq(Listing(dirpath).dirnames, KeepDir)
             filenames == Listing(dirpath).filenames
         IN  DirRows(dirpath, dirnames, "", SessionTime, {})
             \o [k \in 1..Len(filenames) |->
                    FileRow(dirpath, filenames[k], "", SessionTime)]
             \o Tree(JoinAll(dirpath, dirnames) \o Tail(todo))

\* C16: every crawl of a root that runs to completion with no lstat failure
\* leaves beneath the root the entries of the directory tree as it is on
\* disk, so that a second such crawl of the unchanged tree leaves the same
\* entries as the first.
C16_Idempotent ==
    [][\A t \in Threads :
          (/\ ReturnsCompleted(t)
           /\ Len(threads[t].read) = Len(Tree(<<threads[t].root_path>>))) =>
              Entries(RowsBeneath(files', threads[t].root_path))
                  = Entries(Range(Tree(<<threads[t].root_path>>)))]_vars

\* path is root or lies beneath directory root.
AtOrBeneath(path, root) == path = root \/ StartsWith(path, root \o <<"/">>)

\* C17: the DELETE at the start of a crawl of a root removes exactly the rows
\* whose path is the root or lies beneath it, and leaves every other row.
C17_PurgeExact ==
    [][\A t \in Threads :
          (threads[t].pc = "purge" /\ threads'[t].pc = "begin") =>
              LET keep(r) == ~AtOrBeneath(r.path, threads[t].root_path)
              IN  files' = SelectSeq(files, keep)]_vars

\* The final COMMIT of thread t succeeds in this step and the stop flag is
\* not set.
FinalCommits(t) ==
    /\ threads[t].pc = "final_commit"
    /\ threads'[t].pc = "update"
    /\ ~threads[t].stop_flag

\* C20: when the walk of a crawl ended without cancellation or store error,
\* every row the walk read, the rows still in the batch included, is in the
\* committed table once the final COMMIT is done; and when index_path then
\* returns, last_indexed of the root, when the root is a registered
\* location, is committed as the time of completion.
C20_FinalFlush ==
    [][\A t \in Threads :
          /\ FinalCommits(t) =>
                 Range(threads[t].read) \subseteq Range(cFiles')
          /\ (ReturnsCompleted(t)
                /\ HasMount(cMounts', threads[t].root_path)) =>
                 LastIndexedOf(cMounts', threads[t].root_path)
                     = SessionTime]_vars

\* C21: when a crawl that was cancelled inside the walk returns, every row
\* the walk read before the stop flag was seen is in the table.
C21_CancelKeepsBatch ==
    [][\A t \in Threads :
          ReturnsCancelled(t) =>
              Range(threads[t].read) \subseteq Range(files')]_vars

\* The rows of table mount_points with a path other than p, in table order.
OtherMounts(tbl, p) ==
    LET other(m) == m.path # p IN SelectSeq(tbl, other)

\* The rows of table mount_points with path p.
MountsAt(tbl, p) == {k \in 1..Len(tbl) : tbl[k].path = p}

C24_BatchBounded ==
    \A t \in Threads :
        /\ Len(threads[t].batch) <= batch_size
        /\ Len(threads[t].pending) <= batch_size

\* The counts the progress signals of a thread carried.
ProgressCounts(th) ==
    {th.signals[k].n : k \in {j \in 1..Len(th.signals) :
                                  th.signals[j].sig = "progress"}}

\* C25: when a crawl that ran to its end returns, progress was emitted with
\* every multiple of progress_interval the count of indexed files reached.
C25_ProgressAtInterval ==
    [][\A t \in Threads :
          ReturnsCompleted(t) =>
              \A m \in 1..threads[t].indexed_count :
                  m % progress_interval = 0 =>
                      m \in ProgressCounts(threads'[t])]_vars

\* Thread t calls progress_callback in this step.
EmitsProgress(t) ==
    /\ Len(threads'[t].signals) = Len(threads[t].signals) + 1
    /\ threads'[t].signals[Len(threads'[t].signals)].sig = "progress"

\* C26: when a crawl calls progress_callback(count, dirpath), the rows of the
\* batch that holds file number count are in the committed table, and, in
\* the crawl of the first root of a run, count is greater than every count
\* reported before.
C26_ProgressAfterCommit ==
    [][\A t \in Threads :
          EmitsProgress(t) =>
              /\ Range(threads[t].batch) \subseteq Range(cFiles')
              /\ threads[t].i = 1 =>
                     \A c \in ProgressCounts(threads[t]) :
                         c < threads[t].indexed_count]_vars

\* C27: once the stop flag is set during a crawl, the crawl appends at most
\* one more row, the one being processed, to its batch.
C27_StopPerEntry ==
    \A t \in Threads : threads[t].after_stop <= 1

\* index_path of thread t returns in this step.
Returns(t) ==
    /\ threads[t].pc \in {"update", "update_commit", "except"}
    /\ threads'[t].pc = "run"

\* C28: when index_path returns, no transaction is open on the connection;
\* and when the stop flag is seen, no batch of the crawl is inserted and
\* not yet committed.
C28_NoOpenTxn ==
    [][\A t \in Threads :
          /\ Returns(t) => ~inTxn'
          /\ (~threads[t].observed /\ threads'[t].observed) =>
                 threads[t].pending = <<>>]_vars

\* The components of a path, cur being the component read so far.
RECURSIVE Split(_, _)
Split(path, cur) ==
    LET done == IF cur = <<>> THEN <<>> ELSE <<cur>>
    IN  IF path = <<>> THEN done
        ELSE IF Head(path) = "/" THEN done \o Split(Tail(path), <<>>)
        ELSE Split(Tail(path), Append(cur, Head(path)))

\* The names of the directories on the way from root down to row r, r
\* itself included when it is a directory.
DirsBelow(r, root) ==
    LET rel == Split(SubSeq(r.path, Len(root) + 1, Len(r.path)), <<>>)
    IN  IF r.is_directory = 1 THEN Range(rel)
        ELSE {rel[k] : k \in 1..(Len(rel) - 1)}

HiddenDir(name) == StartsWith(name, <<".">>) /\ name \notin {nLocal, nConfig}

\* C29: no row beneath a root is a directory whose name starts with "." and
\* is neither .local nor .config, or lies beneath such a directory; and when
\* a crawl of /c that ran to its end returns, .local, .config and the file
\* in .local are in the table.
C29_HiddenSkipped ==
    /\ [](\A root \in {sRootA, sRootA2, sRootC} :
              \A r \in RowsBeneath(files, root) :
                  \A name \in DirsBelow(r, root) : ~HiddenDir(name))
    /\ [][\A t \in Threads :
             (ReturnsCompleted(t) /\ threads[t].root_path = sRootC) =>
                 {PathJoin(sRootC, nLocal), PathJoin(sRootC, nConfig),
                  PathJoin(PathJoin(sRootC, nLocal), nH)}
                     \subseteq PathsOf(Range(files'))]_vars

\* A crawl of /c, which holds .git, .local and .config, has run to its end.
C29_Witness ==
    \E t \in Threads :
        /\ threads[t].outcome = "completed"
        /\ threads[t].root_path = sRootC
        /\ PathJoin(PathJoin(sRootC, nLocal), nH) \in PathsOf(Range(files))

\* C30: when a crawl in which an lstat raised returns after it ran to its
\* end, the paths beneath the root in the table are the paths of the tree
\* without those whose lstat raised, and the count is the number of files
\* of the tree without those whose lstat raised.
C30_SkipOnlyFailed ==
    [][\A t \in Threads :
          (ReturnsCompleted(t) /\ threads[t].skipped # {}) =>
              LET tree == Range(Tree(<<threads[t].root_path>>))
                  ok   == {r \in tree : r.path \notin threads[t].skipped}
              IN  /\ PathsOf(RowsBeneath(files', threads[t].root_path))
                         = PathsOf(ok)
                  /\ threads[t].indexed_count
                         = Cardinality({r \in ok : r.is_directory = 0})]_vars

\* C33: no transaction-control statement of a crawl fails: BEGIN TRANSACTION
\* is never executed inside an open transaction, COMMIT and ROLLBACK never
\* outside one. A failed BEGIN or COMMIT takes the thread to the except
\* clause; a failed ROLLBACK takes it out of index_path by the exception.
C33_TxnControlSucceeds ==
    \A t \in Threads : threads[t].pc \notin {"except", "crashed"}

\* The rows of table tbl that are file rows read by the crawl of thread
\* record th.
StoredFilesOf(tbl, th) ==
    {k \in 1..Len(tbl) :
        tbl[k].is_directory = 0 /\ tbl[k] \in Range(th.read)}

\* C34: when index_path returns, whatever the outcome, the count it returns
\* is the number of file rows of this crawl in the committed table.
C34_CountIsStored ==
    [][\A t \in Threads :
          Returns(t) =>
              threads[t].indexed_count
                  = Cardinality(StoredFilesOf(cFiles', threads[t]))]_vars

\* C35: the connection is closed only while no IndexThread is running,
\* whichever window started the thread.
C35_CloseWhenIdle ==
    Exited => \A t \in Threads : ~isRunning(t)

\* C36: when the fetchall of a search runs, the result set of the search's
\* own SELECT is still on the cursor, and the search returns it.
C36_OwnRows ==
    [][(amp.pc = "fetchall" /\ amp'.pc = "idle") =>
          /\ cursor # <<>>
          /\ sResults' = cursor[1]]_vars

\* SELECT path FROM mount_points: every registered root, in table order.
RegisteredPaths(tbl) == [k \in 1..Len(tbl) |-> tbl[k].path]

\* C37: in every state every row of table mount_points, as the connection
\* sees it and as committed, has enabled = 1, and the run MainWindow.index_all
\* starts is over every registered root.
C37_AllEnabled ==
    /\ [](\A k \in 1..Len(mounts) : mounts[k].enabled = 1)
    /\ [](\A k \in 1..Len(cMounts) : cMounts[k].enabled = 1)
    /\ [][mainThread' # mainThread =>
             threads'[mainThread'].paths = RegisteredPaths(mounts)]_vars

\* /a, registered by an earlier session, was added again with
\* add_mount_point, and index_all has started a run over it.
C37_Witness ==
    /\ amp.adds = 1
    /\ cFiles = PriorFiles
    /\ Len(mounts) = 1
    /\ mounts[1].path = sRootA
    /\ mounts[1].enabled = 1
    /\ mainThread # 0
    /\ threads[mainThread].pc = "run"
    /\ threads[mainThread].paths = <<sRootA>>

----------------------------------------------------------------------------
(* The two store properties for a crawl whose thread is the only           *)
(* IndexThread created so far: both hold.                                  *)

Alone(t) == \A u \in Threads \ {t} : threads'[u].pc = "unborn"

CancelledStoreAlone ==
    [][\A t \in Threads :
          (ReturnsCancelled(t) /\ Alone(t)) =>
              RowsBeneath(files', threads[t].root_path)
                  = Range(threads[t].committed)]_vars

CompletedStoreAlone ==
    [][\A t \in Threads :
          (ReturnsCompleted(t) /\ Alone(t)) =>
              PathsOf(RowsBeneath(files', threads[t].root_path))
                  = PathsOf(Range(threads[t].read))]_vars

====
